---------------------------- MODULE Spec2Model ----------------------------
(***************************************************************************)
(* Sales performance analysis service: the metrics engine                  *)
(* (data_analysis_service.py), the narrative generator it calls            *)
(* (llm_service.py) and the three HTTP handlers that invoke it (main.py).  *)
(*                                                                         *)
(* A pandas DataFrame is a sequence of records (rows in load order, index  *)
(* 0..n-1 = position).  A float is an exact fraction [num, den]; counts    *)
(* and money are integers.  A date string is a sequence of one-character   *)
(* strings, a Timestamp is a record [y, m, d].                             *)
(***************************************************************************)
EXTENDS Integers, Sequences, FiniteSets, TLC

(* ------------------------------ bounds -------------------------------- *)
\* Largest number of rows in the CSV file.
MaxRecords == 3

(* --------------------------- text and dates --------------------------- *)
DigitChars == <<"0", "1", "2", "3", "4", "5", "6", "7", "8", "9">>

DigitVal(c) == (CHOOSE i \in 1..10 : DigitChars[i] = c) - 1

RECURSIVE Num(_)
Num(cs) == IF cs = <<>> THEN 0
           ELSE 10 * Num(SubSeq(cs, 1, Len(cs) - 1)) + DigitVal(cs[Len(cs)])

Pad2(n) == <<DigitChars[(n \div 10) + 1], DigitChars[(n % 10) + 1]>>

Pad4(n) == <<DigitChars[(n \div 1000) + 1], DigitChars[((n \div 100) % 10) + 1]>>
           \o Pad2(n % 100)

\* A cell of the `dated` / `created` column as read from the CSV: text.
DateStr(y, m, d) ==
    [kind |-> "str", text |-> Pad4(y) \o <<"-">> \o Pad2(m) \o <<"-">> \o Pad2(d)]

\* pd.to_datetime on one cell: text "YYYY-MM-DD" is parsed, a Timestamp is kept.
to_datetime(v) ==
    IF v.kind = "Timestamp" THEN v
    ELSE [kind |-> "Timestamp",
          y |-> Num(SubSeq(v.text, 1, 4)),
          m |-> Num(SubSeq(v.text, 6, 7)),
          d |-> Num(SubSeq(v.text, 9, 10))]

\* Mutation of to_period: the quarter is taken from month / 3, which puts the
\* third month of a quarter into the next quarter.
to_period_month_div(ts, freq) ==
    IF freq = "M" THEN ts.y * 12 + (ts.m - 1)
    ELSE ts.y * 4 + (ts.m \div 3)

\* Series.dt.to_period('M' | 'Q') on one Timestamp: the period's ordinal.
to_period(ts, freq) ==
    IF freq = "M" THEN ts.y * 12 + (ts.m - 1)
    ELSE ts.y * 4 + ((ts.m - 1) \div 3)

\* str(Period): "2024-03" for a month, "2024Q1" for a quarter.
PeriodStr(p, freq) ==
    IF freq = "M" THEN Pad4(p \div 12) \o <<"-">> \o Pad2((p % 12) + 1)
    ELSE Pad4(p \div 4) \o <<"Q">> \o <<DigitChars[(p % 4) + 2]>>

(* ------------------------------ fractions ----------------------------- *)
Frac(n, d) == [num |-> n, den |-> d]

\* Python max(x, 1) for a float x = num/den (den > 0).
FracMax1(x) == IF x.num > x.den THEN x ELSE Frac(1, 1)

Max(a, b) == IF a > b THEN a ELSE b


(* ------------------------- the record store --------------------------- *)
\* Calendar dates of the snapshots: a year boundary, two months of one
\* quarter, two quarters.
Dates == <<DateStr(2023, 12, 20), DateStr(2024, 1, 15), DateStr(2024, 2, 10)>>

\* Employees that have snapshots, and their display names.
EmployeeIds == {1, 2}

EmployeeNames == <<"Ann", "Bob">>

\* Numeric columns of one row.  Ratio columns are held in hundredths, money
\* in hundreds.
Profiles == <<
    [lead_taken |-> 0, tours_booked |-> 0, applications |-> 0,
     tours_per_lead |-> 0, apps_per_tour |-> 0, apps_per_lead |-> 0,
     revenue_confirmed |-> 0, revenue_pending |-> 0, revenue_runrate |-> 0,
     avg_deal_value_30_days |-> 0, avg_close_rate_30_days |-> 0,
     tours_in_pipeline |-> 0, tours_scheduled |-> 0, tours_cancelled |-> 0,
     mon_text |-> 0, tue_text |-> 0, wed_text |-> 0, thur_text |-> 0,
     fri_text |-> 0, sat_text |-> 0, sun_text |-> 0,
     mon_call |-> 0, tue_call |-> 0, wed_call |-> 0, thur_call |-> 0,
     fri_call |-> 0, sat_call |-> 0, sun_call |-> 0],
    [lead_taken |-> 10, tours_booked |-> 4, applications |-> 3,
     tours_per_lead |-> 40, apps_per_tour |-> 75, apps_per_lead |-> 30,
     revenue_confirmed |-> 10, revenue_pending |-> 5, revenue_runrate |-> 12,
     avg_deal_value_30_days |-> 3, avg_close_rate_30_days |-> 50,
     tours_in_pipeline |-> 2, tours_scheduled |-> 1, tours_cancelled |-> 1,
     mon_text |-> 3, tue_text |-> 0, wed_text |-> 0, thur_text |-> 0,
     fri_text |-> 0, sat_text |-> 0, sun_text |-> 0,
     mon_call |-> 2, tue_call |-> 0, wed_call |-> 0, thur_call |-> 0,
     fri_call |-> 0, sat_call |-> 0, sun_call |-> 0],
    [lead_taken |-> 5, tours_booked |-> 3, applications |-> 3,
     tours_per_lead |-> 60, apps_per_tour |-> 100, apps_per_lead |-> 60,
     revenue_confirmed |-> 20, revenue_pending |-> 0, revenue_runrate |-> 25,
     avg_deal_value_30_days |-> 7, avg_close_rate_30_days |-> 20,
     tours_in_pipeline |-> 0, tours_scheduled |-> 0, tours_cancelled |-> 2,
     mon_text |-> 0, tue_text |-> 1, wed_text |-> 0, thur_text |-> 2,
     fri_text |-> 0, sat_text |-> 0, sun_text |-> 1,
     mon_call |-> 0, tue_call |-> 0, wed_call |-> 1, thur_call |-> 0,
     fri_call |-> 0, sat_call |-> 0, sun_call |-> 4] >>

\* The snapshot of employee id on date Dates[k]: identity columns and the
\* numeric columns of one of the profiles, so that snapshots of one employee
\* and snapshots of one date differ.
PerformanceRecord(id, k) ==
    LET p == Profiles[((id + k) % Len(Profiles)) + 1]
    IN [employee_id |-> id, employee_name |-> EmployeeNames[id],
        dated |-> Dates[k],
        lead_taken |-> p.lead_taken, tours_booked |-> p.tours_booked,
        applications |-> p.applications, tours_per_lead |-> p.tours_per_lead,
        apps_per_tour |-> p.apps_per_tour, apps_per_lead |-> p.apps_per_lead,
        revenue_confirmed |-> p.revenue_confirmed,
        revenue_pending |-> p.revenue_pending,
        revenue_runrate |-> p.revenue_runrate,
        avg_deal_value_30_days |-> p.avg_deal_value_30_days,
        avg_close_rate_30_days |-> p.avg_close_rate_30_days,
        tours_in_pipeline |-> p.tours_in_pipeline,
        tours_scheduled |-> p.tours_scheduled,
        tours_cancelled |-> p.tours_cancelled,
        mon_text |-> p.mon_text, tue_text |-> p.tue_text, wed_text |-> p.wed_text,
        thur_text |-> p.thur_text, fri_text |-> p.fri_text, sat_text |-> p.sat_text,
        sun_text |-> p.sun_text,
        mon_call |-> p.mon_call, tue_call |-> p.tue_call, wed_call |-> p.wed_call,
        thur_call |-> p.thur_call, fri_call |-> p.fri_call, sat_call |-> p.sat_call,
        sun_call |-> p.sun_call]

\* The same row in a file that also has the `created` column.
WithCreated(r) ==
    [f \in DOMAIN r \cup {"created"} |-> IF f = "created" THEN r.dated ELSE r[f]]

Rows(withCreated) ==
    {IF withCreated THEN WithCreated(PerformanceRecord(id, k))
     ELSE PerformanceRecord(id, k) :
        id \in EmployeeIds, k \in 1..Len(Dates)}

\* Every table of at most n rows, in any load order, with or without a
\* `created` column.
RecordSets(withCreated, n) == UNION {[1..k -> Rows(withCreated)] : k \in 0..n}

\* The numeric columns of the file.
NumericColumns == DOMAIN Profiles[1]

\* The table as read from a file whose header lacks the column `missing`
\* ("none": the header is complete).
RECURSIVE WithoutColumn(_, _)
WithoutColumn(df, missing) ==
    IF df = <<>> THEN <<>>
    ELSE <<[f \in DOMAIN df[1] \ {missing} |-> df[1][f]]>>
         \o WithoutColumn(Tail(df), missing)

(* --------------------------- pandas helpers --------------------------- *)
\* df[col]: the column as a sequence, in row order.
RECURSIVE Column(_, _)
Column(df, col) ==
    IF df = <<>> THEN <<>> ELSE <<df[1][col]>> \o Column(Tail(df), col)

HasColumn(df, col) == \A i \in 1..Len(df) : col \in DOMAIN df[i]

\* df[col] for some col of cols raises KeyError.
KeyError(df, cols) == \E col \in cols : ~HasColumn(df, col)

\* DataFrame.empty / Series.empty
empty(df) == Len(df) = 0

RECURSIVE sum(_)
sum(xs) == IF xs = <<>> THEN 0 ELSE xs[1] + sum(Tail(xs))

mean(xs) == Frac(sum(xs), Len(xs))

\* Mutation of nunique: counts the values, not the distinct values.
nunique_count(xs) == Len(xs)

nunique(xs) == Cardinality({xs[i] : i \in 1..Len(xs)})

\* Mutation of idxmax: the last occurrence of the maximum.
idxmax_last(xs) ==
    CHOOSE i \in 1..Len(xs) :
        /\ \A j \in 1..Len(xs) : xs[j] <= xs[i]
        /\ \A j \in (i + 1)..Len(xs) : xs[j] < xs[i]

\* Series.idxmax(): label of the first occurrence of the maximum.
idxmax(xs) ==
    CHOOSE i \in 1..Len(xs) :
        /\ \A j \in 1..Len(xs) : xs[j] <= xs[i]
        /\ \A j \in 1..(i - 1) : xs[j] < xs[i]

\* df[df['employee_id'] == employee_id]
FilterEmployee(df, employee_id) ==
    SelectSeq(df, LAMBDA r : r.employee_id = employee_id)

\* Series.std() (ddof = 1): NaN for one value, else the square root of `var`.
RECURSIVE Squares(_)
Squares(xs) ==
    IF xs = <<>> THEN <<>> ELSE <<xs[1] * xs[1]>> \o Squares(Tail(xs))

std(xs) ==
    IF Len(xs) < 2 THEN [nan |-> TRUE]
    ELSE [nan |-> FALSE,
          var |-> Frac(Len(xs) * sum(Squares(xs)) - sum(xs) * sum(xs),
                       Len(xs) * (Len(xs) - 1))]

\* Keys in order of first appearance.
RECURSIVE Uniques(_)
Uniques(ks) ==
    IF ks = <<>> THEN <<>>
    ELSE LET front == Uniques(SubSeq(ks, 1, Len(ks) - 1))
             k == ks[Len(ks)]
         IN IF \E i \in 1..Len(front) : front[i] = k THEN front
            ELSE Append(front, k)

RECURSIVE Insert(_, _)
Insert(sorted, k) ==
    IF sorted = <<>> THEN <<k>>
    ELSE IF k < sorted[1] THEN <<k>> \o sorted
    ELSE <<sorted[1]>> \o Insert(Tail(sorted), k)

RECURSIVE SortAsc(_)
SortAsc(ks) ==
    IF ks = <<>> THEN <<>> ELSE Insert(SortAsc(Tail(ks)), ks[1])

\* Mutation of groupby: sort=False, the keys in order of first appearance.
groupby_unsorted(ks) == Uniques(ks)

\* DataFrame.groupby(keys) (sort=True): the group keys, ascending.
groupby(ks) == SortAsc(Uniques(ks))

\* Mutation of GroupValues: only the first row of a group is taken.
RECURSIVE GroupValues_first(_, _, _, _)
GroupValues_first(df, ks, k, col) ==
    IF df = <<>> THEN <<>>
    ELSE IF ks[1] = k THEN <<df[1][col]>>
    ELSE GroupValues_first(Tail(df), Tail(ks), k, col)

\* Values of column col in the rows whose group key is k, in row order.
RECURSIVE GroupValues(_, _, _, _)
GroupValues(df, ks, k, col) ==
    IF df = <<>> THEN <<>>
    ELSE (IF ks[1] = k THEN <<df[1][col]>> ELSE <<>>)
         \o GroupValues(Tail(df), Tail(ks), k, col)

RECURSIVE GroupSumOver(_, _, _, _)
GroupSumOver(gs, df, ks, col) ==
    IF gs = <<>> THEN <<>>
    ELSE <<[key |-> gs[1], value |-> sum(GroupValues(df, ks, gs[1], col))]>>
         \o GroupSumOver(Tail(gs), df, ks, col)

\* grouped[col].sum(): one (key, sum) per group, in group-key order.
GroupSum(df, ks, col) == GroupSumOver(groupby(ks), df, ks, col)

RECURSIVE GroupMeanOver(_, _, _, _)
GroupMeanOver(gs, df, ks, col) ==
    IF gs = <<>> THEN <<>>
    ELSE <<[key |-> gs[1], value |-> mean(GroupValues(df, ks, gs[1], col))]>>
         \o GroupMeanOver(Tail(gs), df, ks, col)

\* grouped[col].mean()
GroupMean(df, ks, col) == GroupMeanOver(groupby(ks), df, ks, col)

\* d[label] = value for a label already in the dict d: the position is kept.
RECURSIVE DictReplace(_, _, _)
DictReplace(d, label, value) ==
    IF d = <<>> THEN <<>>
    ELSE <<IF d[1].label = label THEN [label |-> label, value |-> value] ELSE d[1]>>
         \o DictReplace(Tail(d), label, value)

\* {str(k): v for k, v in value.items()}: a dict keeps the position of the
\* first insertion of a key and the value of the last.
RECURSIVE StrKeys(_, _)
StrKeys(items, freq) ==
    IF items = <<>> THEN <<>>
    ELSE LET front == StrKeys(SubSeq(items, 1, Len(items) - 1), freq)
             last == items[Len(items)]
             label == PeriodStr(last.key, freq)
         IN IF \E i \in 1..Len(front) : front[i].label = label
            THEN DictReplace(front, label, last.value)
            ELSE Append(front, [label |-> label, value |-> last.value])

\* data_copy['dated'] = pd.to_datetime(data_copy['dated'])
RECURSIVE ConvertDated(_)
ConvertDated(df) ==
    IF df = <<>> THEN <<>>
    ELSE <<[df[1] EXCEPT !.dated = to_datetime(df[1].dated)]>>
         \o ConvertDated(Tail(df))

\* data_copy['dated'].dt.to_period(freq)
RECURSIVE PeriodKeys(_, _)
PeriodKeys(df, freq) ==
    IF df = <<>> THEN <<>>
    ELSE <<to_period(df[1].dated, freq)>> \o PeriodKeys(Tail(df), freq)

(* ------------------- DataAnalysisService: helpers --------------------- *)
\* Python None
None == [none |-> TRUE]

TextFields == <<"mon_text", "tue_text", "wed_text", "thur_text", "fri_text",
                "sat_text", "sun_text">>

CallFields == <<"mon_call", "tue_call", "wed_call", "thur_call", "fri_call",
                "sat_call", "sun_call">>

\* dict.get(key, default)
Get(d, key, default) == IF key \in DOMAIN d THEN d[key] ELSE default

\* [d.get(key, default) for key in keys]
RECURSIVE GetAll(_, _, _)
GetAll(d, keys, default) ==
    IF keys = <<>> THEN <<>>
    ELSE <<Get(d, keys[1], default)>> \o GetAll(d, Tail(keys), default)

\* Mutation of get_employee_data: iloc[-1] of the whole table when the
\* employee has no rows.
get_employee_data_unfiltered(df, employee_id) ==
    IF empty(df) THEN None
    ELSE LET employee_records == FilterEmployee(df, employee_id)
         IN IF empty(employee_records) THEN df[Len(df)]
            ELSE employee_records[Len(employee_records)]

get_employee_data(df, employee_id) ==
    IF empty(df) THEN None
    ELSE LET employee_records == FilterEmployee(df, employee_id)
         IN IF empty(employee_records) THEN None
            ELSE employee_records[Len(employee_records)]

\* Mutation of _calculate_activity_score: calls weigh as much as texts.
_calculate_activity_score_unweighted(employee_data) ==
    sum(GetAll(employee_data, TextFields, 0))
        + sum(GetAll(employee_data, CallFields, 0))

_calculate_activity_score(employee_data) ==
    LET total_texts == sum(GetAll(employee_data, TextFields, 0))
        total_calls == sum(GetAll(employee_data, CallFields, 0))
    IN (total_texts * 1) + (total_calls * 2)

_calculate_pipeline_health(employee_data) ==
    LET total_tours == Get(employee_data, "tours_in_pipeline", 0)
                       + Get(employee_data, "tours_scheduled", 0)
        cancelled_rate == Frac(Get(employee_data, "tours_cancelled", 0),
                               Max(total_tours, 1))
    IN [pipeline_tours |-> Get(employee_data, "tours_in_pipeline", 0),
        scheduled_tours |-> Get(employee_data, "tours_scheduled", 0),
        cancelled_rate |-> cancelled_rate,
        pending_revenue |-> Get(employee_data, "revenue_pending", 0)]

\* Columns that _calculate_employee_metrics indexes as historical_data[col].
EmployeeColumns == {"revenue_confirmed", "lead_taken"}

\* Mutation of revenue_per_lead: the divisor is not guarded by max(., 1).
revenue_per_lead_unguarded(employee_data) ==
    Frac(Get(employee_data, "revenue_confirmed", 0),
         Get(employee_data, "lead_taken", 1))

\* The 'revenue_per_lead' entry of current_performance.
revenue_per_lead(employee_data) ==
    Frac(Get(employee_data, "revenue_confirmed", 0),
         Max(Get(employee_data, "lead_taken", 1), 1))

_calculate_employee_metrics(employee_data, historical_data) ==
    [current_performance |->
        [conversion_rate |-> Get(employee_data, "apps_per_lead", 0),
         revenue_per_lead |-> revenue_per_lead(employee_data),
         activity_score |-> _calculate_activity_score(employee_data),
         pipeline_health |-> _calculate_pipeline_health(employee_data)],
     historical_trends |->
        [total_records |-> Len(historical_data),
         avg_monthly_revenue |-> mean(Column(historical_data, "revenue_confirmed")),
         avg_monthly_leads |-> mean(Column(historical_data, "lead_taken")),
         performance_consistency |->
            [std |-> std(Column(historical_data, "revenue_confirmed")),
             over |-> FracMax1(mean(Column(historical_data, "revenue_confirmed")))]]]

\* Columns that _calculate_team_metrics and _get_top_performer index as
\* self.data[col].
TeamColumns ==
    {"lead_taken", "tours_booked", "applications", "revenue_confirmed",
     "revenue_pending", "avg_close_rate_30_days", "avg_deal_value_30_days",
     "tours_per_lead", "apps_per_tour", "apps_per_lead"}

_get_top_performer(df, metric) ==
    IF empty(df) THEN [name |-> "Unknown", value |-> 0, employee_id |-> 0]
    ELSE LET top_performer == df[idxmax(Column(df, metric))]
         IN [name |-> Get(top_performer, "employee_name", "Unknown"),
             value |-> top_performer[metric],
             employee_id |-> top_performer.employee_id]

_calculate_team_metrics(df) ==
    [overview |->
        [total_employees |-> nunique(Column(df, "employee_id")),
         total_leads |-> sum(Column(df, "lead_taken")),
         total_tours |-> sum(Column(df, "tours_booked")),
         total_applications |-> sum(Column(df, "applications")),
         total_confirmed_revenue |-> sum(Column(df, "revenue_confirmed")),
         total_pending_revenue |-> sum(Column(df, "revenue_pending"))],
     averages |->
        [avg_leads_per_employee |-> mean(Column(df, "lead_taken")),
         avg_revenue_per_employee |-> mean(Column(df, "revenue_confirmed")),
         avg_close_rate |-> mean(Column(df, "avg_close_rate_30_days")),
         avg_deal_value |-> mean(Column(df, "avg_deal_value_30_days"))],
     conversion_metrics |->
        [team_tours_per_lead |-> mean(Column(df, "tours_per_lead")),
         team_apps_per_tour |-> mean(Column(df, "apps_per_tour")),
         team_apps_per_lead |-> mean(Column(df, "apps_per_lead"))],
     top_performers |->
        [highest_revenue |-> _get_top_performer(df, "revenue_confirmed"),
         highest_leads |-> _get_top_performer(df, "lead_taken"),
         highest_applications |-> _get_top_performer(df, "applications"),
         highest_close_rate |-> _get_top_performer(df, "avg_close_rate_30_days")]]

\* Columns that _calculate_trend_metrics indexes as grouped[col] or
\* self.data[col].
TrendColumns ==
    {"revenue_confirmed", "lead_taken", "applications", "avg_close_rate_30_days",
     "tours_in_pipeline", "revenue_pending", "avg_deal_value_30_days"}

\* Mutation of recent_growth: the divisor is not guarded by max(., 1).
recent_growth_unguarded(revenue_values) ==
    IF Len(revenue_values) > 1
    THEN Frac((revenue_values[Len(revenue_values)]
                  - revenue_values[Len(revenue_values) - 1]) * 100,
              revenue_values[Len(revenue_values) - 1])
    ELSE Frac(0, 1)

\* revenue_values[-1], revenue_values[-2] and the growth rate computed from them
recent_growth(revenue_values) ==
    IF Len(revenue_values) > 1
    THEN Frac((revenue_values[Len(revenue_values)]
                  - revenue_values[Len(revenue_values) - 1]) * 100,
              Max(revenue_values[Len(revenue_values) - 1], 1))
    ELSE Frac(0, 1)

_calculate_trend_metrics(df, time_period) ==
    LET data_copy == ConvertDated(df)
        freq == IF time_period = "monthly" THEN "M" ELSE "Q"
        ks == PeriodKeys(data_copy, freq)
        revenue_values == Column(GroupSum(data_copy, ks, "revenue_confirmed"), "value")
    IN [trends |->
          [revenue_trend |->
              StrKeys(GroupSum(data_copy, ks, "revenue_confirmed"), freq),
           lead_trend |-> StrKeys(GroupSum(data_copy, ks, "lead_taken"), freq),
           application_trend |->
              StrKeys(GroupSum(data_copy, ks, "applications"), freq),
           close_rate_trend |->
              StrKeys(GroupMean(data_copy, ks, "avg_close_rate_30_days"), freq)],
        growth_metrics |->
          [recent_revenue_growth |-> recent_growth(revenue_values),
           total_periods |-> Len(revenue_values),
           avg_period_revenue |-> IF revenue_values # <<>> THEN mean(revenue_values)
                                  ELSE Frac(0, 1)],
        pipeline_metrics |->
          [total_pipeline_tours |-> sum(Column(df, "tours_in_pipeline")),
           total_pending_revenue |-> sum(Column(df, "revenue_pending")),
           avg_deal_value |-> mean(Column(df, "avg_deal_value_30_days"))]]

(* ----------------------------- LLMService ----------------------------- *)
\* model.generate_content(prompt) inside try/except: the text, or the error
\* string of the handler's except branch.
analyze_individual_performance(employee_data, genOk) ==
    IF genOk THEN "generated text" ELSE "Error generating analysis"

analyze_team_performance(team_data, genOk) ==
    IF genOk THEN "generated text" ELSE "Error generating team analysis"

\* Lines 159-160 run before the try block: team_data['created'] raises
\* KeyError when the table has no such column.
analyze_performance_trends_raises(team_data) == ~HasColumn(team_data, "created")

\* Columns that the prompt of analyze_performance_trends indexes as
\* team_data[col], after the conversions and before the try block.
PromptColumns ==
    {"revenue_confirmed", "lead_taken", "applications", "avg_close_rate_30_days",
     "revenue_runrate", "tours_in_pipeline", "revenue_pending",
     "avg_deal_value_30_days", "tours_per_lead", "apps_per_tour",
     "mon_text", "tue_text", "wed_text", "thur_text", "fri_text", "sat_text",
     "sun_text"}

\* team_data is the caller's DataFrame: the two column assignments of lines
\* 159-160 are made in place.
RECURSIVE analyze_performance_trends_frame(_)
analyze_performance_trends_frame(team_data) ==
    IF team_data = <<>> THEN <<>>
    ELSE <<[team_data[1] EXCEPT !.created = to_datetime(team_data[1].created),
                                !.dated = to_datetime(team_data[1].dated)]>>
         \o analyze_performance_trends_frame(Tail(team_data))

analyze_performance_trends(team_data, time_period, genOk) ==
    IF genOk THEN "generated text" ELSE "Error generating trend analysis"

(* ------------------ DataAnalysisService: operations ------------------- *)
\* Each operation yields [raised, value, frame, generator]: whether an
\* exception left the method, the dict returned, self.data afterwards and
\* whether a narrative method was entered.
get_employee_performance_analysis(df, employee_id, genOk) ==
    LET employee_data == get_employee_data(df, employee_id)
    IN IF employee_data = None
       THEN [raised |-> FALSE,
             value |-> [error |-> "Employee not found", employee_id |-> employee_id],
             frame |-> df, generator |-> FALSE]
       ELSE LET historical_data == FilterEmployee(df, employee_id)
            IN IF KeyError(historical_data, EmployeeColumns)
               THEN [raised |-> TRUE, value |-> [exception |-> "KeyError"],
                     frame |-> df, generator |-> FALSE]
               ELSE
               [raised |-> FALSE,
                value |->
                  [employee_id |-> employee_id,
                   employee_name |-> Get(employee_data, "employee_name", "Unknown"),
                   performance_metrics |->
                      _calculate_employee_metrics(employee_data, historical_data),
                   llm_analysis |->
                      analyze_individual_performance(employee_data, genOk),
                   historical_records |-> Len(historical_data),
                   last_updated |-> Get(employee_data, "dated", "Unknown")],
                frame |-> df, generator |-> TRUE]

\* Mutation of get_team_performance_analysis: no guard for an empty table.
get_team_performance_analysis_unguarded(df, genOk) ==
    IF KeyError(df, TeamColumns)
    THEN [raised |-> TRUE, value |-> [exception |-> "KeyError"],
          frame |-> df, generator |-> FALSE]
    ELSE
    [raised |-> FALSE,
     value |-> [team_metrics |-> _calculate_team_metrics(df),
                llm_analysis |-> analyze_team_performance(df, genOk),
                total_records |-> Len(df),
                unique_employees |-> nunique(Column(df, "employee_id"))],
     frame |-> df, generator |-> TRUE]

get_team_performance_analysis(df, genOk) ==
    IF empty(df)
    THEN [raised |-> FALSE, value |-> [error |-> "No data available for analysis"],
          frame |-> df, generator |-> FALSE]
    ELSE IF KeyError(df, TeamColumns)
    THEN [raised |-> TRUE, value |-> [exception |-> "KeyError"],
          frame |-> df, generator |-> FALSE]
    ELSE [raised |-> FALSE,
          value |-> [team_metrics |-> _calculate_team_metrics(df),
                     llm_analysis |-> analyze_team_performance(df, genOk),
                     total_records |-> Len(df),
                     unique_employees |-> nunique(Column(df, "employee_id"))],
          frame |-> df, generator |-> TRUE]

get_performance_trends(df, time_period, genOk) ==
    IF empty(df)
    THEN [raised |-> FALSE, value |-> [error |-> "No data available for analysis"],
          frame |-> df, generator |-> FALSE]
    ELSE IF KeyError(df, TrendColumns)
    THEN [raised |-> TRUE, value |-> [exception |-> "KeyError"],
          frame |-> df, generator |-> FALSE]
    ELSE IF analyze_performance_trends_raises(df)
    THEN [raised |-> TRUE, value |-> [exception |-> "KeyError: 'created'"],
          frame |-> df, generator |-> TRUE]
    ELSE IF KeyError(df, PromptColumns)
    THEN [raised |-> TRUE, value |-> [exception |-> "KeyError"],
          frame |-> analyze_performance_trends_frame(df), generator |-> TRUE]
    ELSE [raised |-> FALSE,
          value |-> [time_period |-> time_period,
                     trend_metrics |-> _calculate_trend_metrics(df, time_period),
                     llm_analysis |->
                        analyze_performance_trends(df, time_period, genOk)],
          frame |-> analyze_performance_trends_frame(df), generator |-> TRUE]

(* ------------------------------- state -------------------------------- *)
VARIABLES
    store,             \* sales_performance_data.csv: [exists, rows]
    analysis_service,  \* main.py module global: "ok" or "none"
    data,              \* DataAnalysisService.data (self.data)
    request,           \* the HTTP request handled last
    result,            \* dict the engine returned to the handler, or None
    raised,            \* an exception left the engine method
    generated,         \* a narrative method of LLMService was entered
    status             \* HTTP status the handler produced

vars == <<store, analysis_service, data, request, result, raised, generated, status>>

\* rep_id values of requests (Query(ge=1)): the employees and an unknown id.
RepIds == EmployeeIds \cup {3}

TimePeriods == {"monthly", "quarterly"}

NoRequest == [op |-> "none", rep_id |-> 0, time_period |-> ""]

\* load_sales_data() raises FileNotFoundError for a missing file; load_data
\* then falls back to an empty DataFrame.
load_data(st) == IF st.exists THEN st.rows ELSE <<>>

\* Module initialisation of main.py: LLMService() raises ValueError without
\* GEMINI_API_KEY, before load_data() runs, and analysis_service is None.
Init ==
    \E apiKey \in BOOLEAN, fileOk \in BOOLEAN, withCreated \in BOOLEAN,
       missing \in {"none"} \cup NumericColumns :
      \E full \in RecordSets(withCreated,
                              IF apiKey /\ withCreated /\ missing = "none"
                              THEN MaxRecords ELSE 1) :
        LET rows == WithoutColumn(full, missing) IN
        /\ missing # "none" => (apiKey /\ fileOk /\ withCreated)
        /\ store = IF fileOk THEN [exists |-> TRUE, rows |-> rows]
                   ELSE [exists |-> FALSE, rows |-> <<>>]
        /\ analysis_service = IF apiKey THEN "ok" ELSE "none"
        /\ data = IF apiKey /\ fileOk THEN rows ELSE <<>>
        /\ request = NoRequest
        /\ result = None
        /\ raised = FALSE
        /\ generated = FALSE
        /\ status = 0

\* What a handler does with the outcome r of an engine call; notFound is the
\* status it raises for an "error" dict.
Respond(r, notFound) ==
    /\ data' = r.frame
    /\ raised' = r.raised
    /\ generated' = r.generator
    /\ result' = IF r.raised THEN None ELSE r.value
    /\ status' = IF r.raised THEN 500
                 ELSE IF "error" \in DOMAIN r.value THEN notFound
                 ELSE 200

Unavailable ==
    /\ status' = 503
    /\ result' = None
    /\ raised' = FALSE
    /\ generated' = FALSE
    /\ UNCHANGED data

\* GET /api/rep_performance?rep_id=
get_rep_performance(rep_id) ==
    /\ request' = [op |-> "rep", rep_id |-> rep_id, time_period |-> ""]
    /\ IF analysis_service = "none" THEN Unavailable
       ELSE \E genOk \in BOOLEAN :
               Respond(get_employee_performance_analysis(data, rep_id, genOk), 404)
    /\ UNCHANGED <<store, analysis_service>>

\* GET /api/team_performance
get_team_performance ==
    /\ request' = [op |-> "team", rep_id |-> 0, time_period |-> ""]
    /\ IF analysis_service = "none" THEN Unavailable
       ELSE \E genOk \in BOOLEAN :
               Respond(get_team_performance_analysis(data, genOk), 500)
    /\ UNCHANGED <<store, analysis_service>>

\* GET /api/performance_trends?time_period=
get_performance_trends_endpoint(time_period) ==
    /\ request' = [op |-> "trends", rep_id |-> 0, time_period |-> time_period]
    /\ IF analysis_service = "none" THEN Unavailable
       ELSE \E genOk \in BOOLEAN :
               Respond(get_performance_trends(data, time_period, genOk), 500)
    /\ UNCHANGED <<store, analysis_service>>

Next ==
    \/ \E rep_id \in RepIds : get_rep_performance(rep_id)
    \/ get_team_performance
    \/ \E time_period \in TimePeriods : get_performance_trends_endpoint(time_period)

Spec == Init /\ [][Next]_vars

(* ------------------------ vocabulary of the claims --------------------- *)
\* The RecordSet as the store supplied it to the engine.
Loaded == load_data(store)

\* The engine answered the last request of the given kind.
Answered(op) == /\ request.op = op
                /\ analysis_service = "ok"

\* Calendar position of a `dated` cell, whatever its representation.
DateOrd(v) == LET ts == to_datetime(v) IN ts.y * 10000 + ts.m * 100 + ts.d

Present(df, employee_id) == \E i \in 1..Len(df) : df[i].employee_id = employee_id

\* The latest record of an employee: maximum `dated` in the EmployeeHistory,
\* the last in load order among the records that share it.
LatestByDate(df, employee_id) ==
    LET h == FilterEmployee(df, employee_id)
    IN h[CHOOSE i \in 1..Len(h) :
            /\ \A j \in 1..Len(h) : DateOrd(h[j].dated) <= DateOrd(h[i].dated)
            /\ \A j \in (i + 1)..Len(h) : DateOrd(h[j].dated) < DateOrd(h[i].dated)]

IsSuccess(field) == /\ ~raised
                    /\ field \in DOMAIN result

\* A result without its narrative text.
Metrics(r) == [f \in DOMAIN r \ {"llm_analysis"} |-> r[f]]

\* What the engine returns for a request when it is the first and only one
\* issued on the loaded RecordSet.
FirstOutcome(req) ==
    IF req.op = "rep" THEN get_employee_performance_analysis(Loaded, req.rep_id, TRUE)
    ELSE IF req.op = "team" THEN get_team_performance_analysis(Loaded, TRUE)
    ELSE get_performance_trends(Loaded, req.time_period, TRUE)

(* ------------------------------- claims -------------------------------- *)
\* C1: for every employee_id present in the RecordSet, getEmployeeAnalysis
\* returns a non-error result whose employee_id, employee_name and
\* last_updated are those of the record with the maximum `dated` in that
\* employee's history, for every load order.
C1_LatestByMaxDated ==
    (Answered("rep") /\ Present(data, request.rep_id)) =>
        /\ IsSuccess("performance_metrics")
        /\ result.employee_id = LatestByDate(data, request.rep_id).employee_id
        /\ result.employee_name = LatestByDate(data, request.rep_id).employee_name
        /\ result.last_updated = LatestByDate(data, request.rep_id).dated

\* C2: for an id absent from the RecordSet (the empty RecordSet included),
\* getEmployeeAnalysis returns the NotFound result carrying exactly that id,
\* with no metrics, narrative or record count, and the narrative generator is
\* not invoked.
C2_NotFound ==
    (Answered("rep") /\ ~Present(data, request.rep_id)) =>
        /\ ~raised
        /\ DOMAIN result = {"error", "employee_id"}
        /\ result.employee_id = request.rep_id
        /\ ~generated

C2_Witness ==
    /\ Answered("rep")
    /\ data # <<>>
    /\ ~Present(data, request.rep_id)
    /\ "error" \in DOMAIN result

\* C3: after any sequence of the three queries the process-wide RecordSet is
\* the one that was loaded: same records, same order, every field with the
\* same value and representation.
C3_RecordSetUnchanged ==
    analysis_service = "ok" => data = Loaded

\* C4: every request returns the result (narrative text excepted) it would
\* return as the first and only request on the loaded RecordSet.
C4_PureFunctionOfLoaded ==
    (analysis_service = "ok" /\ request.op # "none") =>
        /\ raised = FirstOutcome(request).raised
        /\ ~raised => Metrics(result) = Metrics(FirstOutcome(request).value)

\* C5: getTeamAnalysis and getTrends on an empty RecordSet (nothing loaded, or
\* the store failed to load) return the EmptyDataset error result, raise
\* nothing, compute no metrics and invoke no narrative generation.
C5_EmptyDataset ==
    ((Answered("team") \/ Answered("trends")) /\ empty(data)) =>
        /\ ~raised
        /\ result = [error |-> "No data available for analysis"]
        /\ ~generated

C5_Witness ==
    /\ Answered("trends")
    /\ ~store.exists
    /\ empty(data)
    /\ "error" \in DOMAIN result

\* C6: a failure of the narrative generator (constructing it, preparing its
\* input, or the text-generation call) never costs the metrics: whenever the
\* store holds what a query asks about, the query returns its success payload
\* with the computed metrics and no exception crosses the engine boundary.
C6_NarrativeIsolated ==
    /\ (request.op = "rep" /\ Present(store.rows, request.rep_id)) =>
           IsSuccess("performance_metrics")
    /\ (request.op = "team" /\ store.rows # <<>>) => IsSuccess("team_metrics")
    /\ (request.op = "trends" /\ store.rows # <<>>) => IsSuccess("trend_metrics")

\* The four top-performer entries and the column each is selected by.
TopMetrics ==
    <<[field |-> "highest_revenue", metric |-> "revenue_confirmed"],
      [field |-> "highest_leads", metric |-> "lead_taken"],
      [field |-> "highest_applications", metric |-> "applications"],
      [field |-> "highest_close_rate", metric |-> "avg_close_rate_30_days"]>>

\* C7: for each of revenue_confirmed, lead_taken, applications and
\* avg_close_rate_30_days, the top performer of a non-empty RecordSet is the
\* name, value and employee_id of one record whose value is the maximum over
\* all records, the first in load order among those that tie at the maximum.
C7_TopPerformer ==
    (Answered("team") /\ IsSuccess("team_metrics")) =>
        \A k \in 1..Len(TopMetrics) :
            LET tp == result.team_metrics.top_performers[TopMetrics[k].field]
                col == TopMetrics[k].metric
            IN \E i \in 1..Len(data) :
                  /\ \A j \in 1..Len(data) : data[j][col] <= data[i][col]
                  /\ \A j \in 1..(i - 1) : data[j][col] < data[i][col]
                  /\ tp.name = data[i].employee_name
                  /\ tp.value = data[i][col]
                  /\ tp.employee_id = data[i].employee_id

\* Two records of different employees tie at the maximum revenue.
C7_Witness ==
    /\ Answered("team")
    /\ IsSuccess("team_metrics")
    /\ \E i, j \in 1..Len(data) :
          /\ i < j
          /\ data[i].employee_id # data[j].employee_id
          /\ data[i].revenue_confirmed = data[j].revenue_confirmed
          /\ \A n \in 1..Len(data) :
                data[n].revenue_confirmed <= data[i].revenue_confirmed
          /\ \A n \in 1..(i - 1) :
                data[n].revenue_confirmed < data[i].revenue_confirmed
          /\ result.team_metrics.top_performers.highest_revenue.employee_id
                = data[i].employee_id

\* Sum of a column over the first n rows.
RECURSIVE Total(_, _, _)
Total(df, col, n) == IF n = 0 THEN 0 ELSE Total(df, col, n - 1) + df[n][col]

\* C8: the team overview totals are the sums of their columns over every
\* record of the RecordSet, every historical row of an employee counted, and
\* total_employees is the number of distinct employee_id values.
C8_TeamTotals ==
    (Answered("team") /\ IsSuccess("team_metrics")) =>
        LET o == result.team_metrics.overview
            n == Len(data)
        IN /\ o.total_leads = Total(data, "lead_taken", n)
           /\ o.total_tours = Total(data, "tours_booked", n)
           /\ o.total_applications = Total(data, "applications", n)
           /\ o.total_confirmed_revenue = Total(data, "revenue_confirmed", n)
           /\ o.total_pending_revenue = Total(data, "revenue_pending", n)
           /\ \E ids \in SUBSET EmployeeIds :
                 /\ \A i \in 1..n : data[i].employee_id \in ids
                 /\ \A e \in ids : Present(data, e)
                 /\ o.total_employees = Cardinality(ids)

\* One employee has several snapshots with leads, another has one.
C8_Witness ==
    /\ Answered("team")
    /\ IsSuccess("team_metrics")
    /\ \E i, j, k \in 1..Len(data) :
          /\ i < j
          /\ data[i].employee_id = data[j].employee_id
          /\ data[k].employee_id # data[i].employee_id
          /\ data[i].lead_taken > 0
          /\ data[j].lead_taken > 0
    /\ result.team_metrics.overview.total_employees = 2
    /\ result.team_metrics.overview.total_leads = Total(data, "lead_taken", Len(data))

\* Chronological position of a bucket label "YYYY-MM" or "YYYYQn".
LabelOrd(label) ==
    IF label[5] = "-"
    THEN Num(SubSeq(label, 1, 4)) * 12 + Num(SubSeq(label, 6, 7))
    ELSE Num(SubSeq(label, 1, 4)) * 4 + Num(SubSeq(label, 6, 6))

StrictlyAscending(d) ==
    \A i, j \in 1..Len(d) : i < j => LabelOrd(d[i].label) < LabelOrd(d[j].label)

\* C9: for any load order, the buckets of every trend of getTrends are emitted
\* in strictly ascending chronological order of bucket key, no key twice, for
\* monthly and quarterly granularity.
C9_BucketsAscending ==
    (Answered("trends") /\ IsSuccess("trend_metrics")) =>
        LET t == result.trend_metrics.trends
        IN /\ StrictlyAscending(t.revenue_trend)
           /\ StrictlyAscending(t.lead_trend)
           /\ StrictlyAscending(t.application_trend)
           /\ StrictlyAscending(t.close_rate_trend)

\* Quarterly buckets of a table loaded in reverse chronological order.
C9_Witness ==
    /\ Answered("trends")
    /\ IsSuccess("trend_metrics")
    /\ request.time_period = "quarterly"
    /\ Len(result.trend_metrics.trends.revenue_trend) = 2
    /\ Len(data) = 3
    /\ DateOrd(data[1].dated) > DateOrd(data[2].dated)
    /\ DateOrd(data[2].dated) > DateOrd(data[3].dated)

\* Bucket of a record: months or quarters since year 0.
BucketOf(r, time_period) ==
    LET ts == to_datetime(r.dated)
    IN IF time_period = "monthly" THEN ts.y * 12 + ts.m - 1
       ELSE ts.y * 4 + (ts.m - 1) \div 3

Buckets(df, time_period) == {BucketOf(df[i], time_period) : i \in 1..Len(df)}

Latest(S) == CHOOSE b \in S : \A c \in S : c <= b

\* Confirmed revenue of the first n records that fall in bucket b.
RECURSIVE BucketRevenue(_, _, _, _)
BucketRevenue(df, time_period, b, n) ==
    IF n = 0 THEN 0
    ELSE BucketRevenue(df, time_period, b, n - 1)
         + (IF BucketOf(df[n], time_period) = b THEN df[n].revenue_confirmed ELSE 0)

\* C10: with at least 2 buckets recent_growth_pct is
\* (R_last - R_prev) / max(R_prev, 1) * 100 for the chronologically last and
\* second-to-last buckets (divisor 1 when R_prev = 0); with fewer it is 0;
\* total_periods is the number of buckets.
C10_RecentGrowth ==
    (Answered("trends") /\ IsSuccess("trend_metrics")) =>
        LET g == result.trend_metrics.growth_metrics
            bs == Buckets(data, request.time_period)
            last == Latest(bs)
            prev == Latest(bs \ {last})
            R_last == BucketRevenue(data, request.time_period, last, Len(data))
            R_prev == BucketRevenue(data, request.time_period, prev, Len(data))
        IN /\ g.total_periods = Cardinality(bs)
           /\ g.recent_revenue_growth.den > 0
           /\ IF Cardinality(bs) >= 2
              THEN g.recent_revenue_growth.num * Max(R_prev, 1)
                      = (R_last - R_prev) * 100 * g.recent_revenue_growth.den
              ELSE g.recent_revenue_growth.num = 0

\* Three monthly buckets loaded out of order, the second-to-last without
\* revenue and the last with revenue.
C10_Witness ==
    /\ Answered("trends")
    /\ IsSuccess("trend_metrics")
    /\ request.time_period = "monthly"
    /\ result.trend_metrics.growth_metrics.total_periods = 3
    /\ DateOrd(data[1].dated) > DateOrd(data[2].dated)
    /\ LET bs == Buckets(data, "monthly")
           last == Latest(bs)
           prev == Latest(bs \ {last})
       IN /\ BucketRevenue(data, "monthly", prev, Len(data)) = 0
          /\ BucketRevenue(data, "monthly", last, Len(data)) > 0
          /\ result.trend_metrics.growth_metrics.recent_revenue_growth.num > 0

\* Rows of the RecordSet that a getEmployeeAnalysis result describes: the ones
\* with its employee_id and its last_updated date.
ResolvedRows ==
    {i \in 1..Len(data) : /\ data[i].employee_id = result.employee_id
                          /\ data[i].dated = result.last_updated}

\* C11: in every successful getEmployeeAnalysis result revenue_per_lead is
\* revenue_confirmed / max(lead_taken, 1) of the record the result was
\* resolved to; with lead_taken = 0 it is revenue_confirmed, and the divisor
\* is never 0.
C11_RevenuePerLead ==
    (Answered("rep") /\ IsSuccess("performance_metrics")) =>
        LET rpl == result.performance_metrics.current_performance.revenue_per_lead
        IN /\ ResolvedRows # {}
           /\ rpl.den > 0
           /\ \A i \in ResolvedRows :
                 /\ rpl.num * Max(data[i].lead_taken, 1)
                       = data[i].revenue_confirmed * rpl.den
                 /\ data[i].lead_taken = 0 =>
                       rpl.num = data[i].revenue_confirmed * rpl.den

\* The resolved record has no leads, an earlier one of the employee has.
C11_Witness ==
    /\ Answered("rep")
    /\ IsSuccess("performance_metrics")
    /\ Len(data) >= 2
    /\ data[1].employee_id = request.rep_id
    /\ data[1].lead_taken > 0
    /\ \E i \in ResolvedRows : data[i].lead_taken = 0
    /\ result.performance_metrics.current_performance.revenue_per_lead.den = 1

\* The fourteen per-day activity counts of a record.
DayCounts ==
    {"mon_text", "tue_text", "wed_text", "thur_text", "fri_text", "sat_text",
     "sun_text", "mon_call", "tue_call", "wed_call", "thur_call", "fri_call",
     "sat_call", "sun_call"}

Texts(r) == r.mon_text + r.tue_text + r.wed_text + r.thur_text + r.fri_text
            + r.sat_text + r.sun_text

Calls(r) == r.mon_call + r.tue_call + r.wed_call + r.thur_call + r.fri_call
            + r.sat_call + r.sun_call

\* C12: activity_score is the sum of the seven per-day text counts plus twice
\* the sum of the seven per-day call counts (mon, tue, wed, thur, fri, sat,
\* sun) of the record the result was resolved to, whatever the other fields
\* of that record and the other records hold.
C12_ActivityScore ==
    (Answered("rep") /\ IsSuccess("performance_metrics")) =>
        /\ ResolvedRows # {}
        /\ \A i \in ResolvedRows :
              DayCounts \subseteq DOMAIN data[i] =>
                result.performance_metrics.current_performance.activity_score
                    = Texts(data[i]) + 2 * Calls(data[i])

\* The resolved record has texts and calls on different days, and the
\* employee has an earlier record with another activity.
C12_Witness ==
    /\ Answered("rep")
    /\ IsSuccess("performance_metrics")
    /\ Len(data) >= 2
    /\ data[1].employee_id = request.rep_id
    /\ \E i \in ResolvedRows :
          /\ i > 1
          /\ DayCounts \subseteq DOMAIN data[i]
          /\ data[i].thur_text > 0
          /\ data[i].sun_call > 0
          /\ Texts(data[1]) + 2 * Calls(data[1])
                # Texts(data[i]) + 2 * Calls(data[i])
    /\ result.performance_metrics.current_performance.activity_score = 14

\* The table with every absent numeric field of a record set to 0.
RECURSIVE FillZero(_)
FillZero(df) ==
    IF df = <<>> THEN <<>>
    ELSE <<[f \in DOMAIN df[1] \cup NumericColumns |->
               IF f \in DOMAIN df[1] THEN df[1][f] ELSE 0]>>
         \o FillZero(Tail(df))

\* What the engine returns for a request on the table df.
OutcomeOn(df, req) ==
    IF req.op = "rep" THEN get_employee_performance_analysis(df, req.rep_id, TRUE)
    ELSE IF req.op = "team" THEN get_team_performance_analysis(df, TRUE)
    ELSE get_performance_trends(df, req.time_period, TRUE)

\* C13: a numeric field that is missing from a record counts as 0 wherever a
\* metric reads it (current performance and historical block of an employee,
\* team totals and averages, trend and pipeline aggregates) and makes none of
\* the three queries fail: on a table that has its date columns every
\* request returns what it returns with the missing field set to 0.
C13_MissingFieldIsZero ==
    (analysis_service = "ok" /\ request.op # "none" /\ HasColumn(data, "created")) =>
        /\ ~raised
        /\ Metrics(result) = Metrics(OutcomeOn(FillZero(data), request).value)

\* Bucket named by a label "YYYY-MM" or "YYYYQn", as BucketOf counts them.
LabelBucket(label) == LabelOrd(label) - 1

\* Sum of a column over the first n records that fall in bucket b.
RECURSIVE BucketTotal(_, _, _, _, _)
BucketTotal(df, time_period, b, col, n) ==
    IF n = 0 THEN 0
    ELSE BucketTotal(df, time_period, b, col, n - 1)
         + (IF BucketOf(df[n], time_period) = b THEN df[n][col] ELSE 0)

BucketSize(df, time_period, b) ==
    Cardinality({i \in 1..Len(df) : BucketOf(df[i], time_period) = b})

\* One entry per bucket that holds a record, and no other entry.
CoversBuckets(d, bs) ==
    /\ Len(d) = Cardinality(bs)
    /\ {LabelBucket(d[k].label) : k \in 1..Len(d)} = bs

\* Every entry of d is the sum of col over the records of its bucket.
SumsBuckets(d, df, time_period, col) ==
    \A k \in 1..Len(d) :
        d[k].value = BucketTotal(df, time_period, LabelBucket(d[k].label), col,
                                 Len(df))

\* C14: getTrends puts every record in the bucket of the (year, month) or
\* (year, quarter) of its `dated`, and in no other; the revenue, lead and
\* application value of a bucket is the sum of revenue_confirmed, lead_taken
\* and applications over exactly the records of that bucket, its close rate
\* the mean of their avg_close_rate_30_days.
C14_BucketSums ==
    (Answered("trends") /\ IsSuccess("trend_metrics")) =>
        LET t == result.trend_metrics.trends
            p == request.time_period
            bs == Buckets(data, p)
        IN /\ CoversBuckets(t.revenue_trend, bs)
           /\ CoversBuckets(t.lead_trend, bs)
           /\ CoversBuckets(t.application_trend, bs)
           /\ CoversBuckets(t.close_rate_trend, bs)
           /\ SumsBuckets(t.revenue_trend, data, p, "revenue_confirmed")
           /\ SumsBuckets(t.lead_trend, data, p, "lead_taken")
           /\ SumsBuckets(t.application_trend, data, p, "applications")
           /\ \A k \in 1..Len(t.close_rate_trend) :
                 LET e == t.close_rate_trend[k]
                     b == LabelBucket(e.label)
                 IN /\ e.value.den > 0
                    /\ e.value.num * BucketSize(data, p, b)
                          = BucketTotal(data, p, b, "avg_close_rate_30_days",
                                        Len(data)) * e.value.den

\* Quarterly buckets across a year boundary: a December record alone in its
\* quarter, two records with revenue sharing the next one, loaded between
\* each other.
C14_Witness ==
    /\ Answered("trends")
    /\ IsSuccess("trend_metrics")
    /\ request.time_period = "quarterly"
    /\ Len(data) = 3
    /\ to_datetime(data[2].dated).m = 12
    /\ to_datetime(data[1].dated).m # to_datetime(data[3].dated).m
    /\ data[1].revenue_confirmed > 0
    /\ data[3].revenue_confirmed > 0
    /\ Len(result.trend_metrics.trends.revenue_trend) = 2
    /\ result.trend_metrics.trends.revenue_trend[2].value
          = data[1].revenue_confirmed + data[3].revenue_confirmed

\* C15: no exception leaves an engine operation, and the handlers map what it
\* returns: the NotFound result of getEmployeeAnalysis to 404, the
\* EmptyDataset result of getTeamAnalysis and getTrends to 500, a success
\* payload to the body of a 200 response; a 200 response never carries an
\* error result.
C15_TaggedResultsMapped ==
    (analysis_service = "ok" /\ request.op # "none") =>
        /\ ~raised
        /\ ("error" \in DOMAIN result /\ request.op = "rep") => status = 404
        /\ ("error" \in DOMAIN result /\ request.op # "rep") => status = 500
        /\ "error" \notin DOMAIN result => status = 200
        /\ status = 200 => "error" \notin DOMAIN result

\* Sum of the values of a trend.
RECURSIVE ValueSum(_)
ValueSum(d) == IF d = <<>> THEN 0 ELSE d[1].value + ValueSum(Tail(d))

OtherPeriod(time_period) ==
    IF time_period = "monthly" THEN "quarterly" ELSE "monthly"

\* C16: for a non-empty RecordSet and either granularity the revenue, lead
\* and application values of getTrends add up over the buckets to
\* total_confirmed_revenue, total_leads and total_applications of the team
\* overview on the same RecordSet, and total_pipeline_tours and
\* total_pending_revenue of getTrends are the same for monthly and quarterly.
C16_BucketsConserveTotals ==
    (Answered("trends") /\ IsSuccess("trend_metrics")) =>
        LET t == result.trend_metrics.trends
            pm == result.trend_metrics.pipeline_metrics
            team == get_team_performance_analysis(data, TRUE)
            other == get_performance_trends(data, OtherPeriod(request.time_period),
                                            TRUE)
        IN /\ ~team.raised =>
                LET o == team.value.team_metrics.overview
                IN /\ ValueSum(t.revenue_trend) = o.total_confirmed_revenue
                   /\ ValueSum(t.lead_trend) = o.total_leads
                   /\ ValueSum(t.application_trend) = o.total_applications
           /\ ~other.raised
           /\ pm.total_pipeline_tours
                 = other.value.trend_metrics.pipeline_metrics.total_pipeline_tours
           /\ pm.total_pending_revenue
                 = other.value.trend_metrics.pipeline_metrics.total_pending_revenue

\* Two buckets, one of them with two records that have revenue, and tours in
\* the pipeline.
C16_Witness ==
    /\ Answered("trends")
    /\ IsSuccess("trend_metrics")
    /\ Len(data) = 3
    /\ Len(result.trend_metrics.trends.revenue_trend) = 2
    /\ \E i, j \in 1..Len(data) :
          /\ i < j
          /\ BucketOf(data[i], request.time_period)
                = BucketOf(data[j], request.time_period)
          /\ data[i].revenue_confirmed > 0
          /\ data[j].revenue_confirmed > 0
    /\ ValueSum(result.trend_metrics.trends.revenue_trend)
          = Total(data, "revenue_confirmed", 3)
    /\ ~KeyError(data, TeamColumns)
    /\ result.trend_metrics.pipeline_metrics.total_pipeline_tours > 0

=============================================================================
